---- MODULE Spec2Model ----
(***************************************************************************)
(* State-machine model of the eeg_cleaner log store (cleaner/io.py) and of *)
(* the reconciler (cleaner/applier.py).                                    *)
(*                                                                         *)
(* The persisted file eeg_cleaner.json is a Python dict; it is modelled as *)
(* a TLA+ function with a domain of strings, so that "key in dict",        *)
(* dict.get(key, default) and dict[key] = value keep their meaning.  Bad   *)
(* channel lists are modelled as sets (the code builds them with           *)
(* list(set(...)), whose order is unspecified); selections, event lists    *)
(* and exclude lists are sequences, as in the JSON file.  All values used  *)
(* are ints, strings, lists and dicts with string keys, which json.dump /  *)
(* json.load write and read back unchanged.  The version provider          *)
(* (_get_git_hash) is taken to succeed and to return GitHash.              *)
(***************************************************************************)
EXTENDS Integers, Sequences, FiniteSets, TLC

\* ------------------------------------------------------------------ bounds
\* number of events (original segment indices 0 .. NEpochs-1) of an epochs
\* artifact
NEpochs == 2
\* number of ICA components (indices 0 .. NComponents-1)
NComponents == 2

\* channels an artifact of each kind can have flagged
RawChannels == {"c1", "c2"}
EpochsChannels == {"c1"}
RawFiles == {"a_raw.fif", "b_raw.fif"}
EpochsFiles == {"a_epo.fif"}
IcaFiles == {"a_ica.fif"}
Kinds == {"raws", "epochs", "icas"}

\* ------------------------------------------------------- Python dict helpers
EmptyDict == [k \in {} |-> {}]
Has(d, k) == k \in DOMAIN d
Get(d, k, default) == IF k \in DOMAIN d THEN d[k] ELSE default
Put(d, k, v) == [y \in DOMAIN d \cup {k} |-> IF y = k THEN v ELSE d[y]]
Range(s) == {s[i] : i \in DOMAIN s}

\* ------------------------------------------------------------- io.py: store
GitHash == "v2"

\* the "raws"/"epochs"/"icas"/"config" defaulting shared by read_log and
\* save_log; the result is <<error, logs>>
FillDefaults(logs0) ==
    LET l1 == IF Has(logs0, "raws") THEN logs0 ELSE Put(logs0, "raws", EmptyDict)
        l2 == IF Has(l1, "epochs") THEN l1 ELSE Put(l1, "epochs", EmptyDict)
        l3 == IF Has(l2, "icas") THEN l2 ELSE Put(l2, "icas", EmptyDict)
    IN  IF ~Has(l3, "config")
          THEN [err |-> "ok", logs |-> Put(l3, "config", [version |-> GitHash])]
          ELSE IF ~Has(l3["config"], "version")
                 THEN [err |-> "KeyError", logs |-> l3]
                 ELSE [err |-> "ok", logs |-> l3]   \* version differs: warning only

\* save_log(path, logs): the file after the call, <<error, exists, disk>>
SaveLog(ex, dk, logs) ==
    LET f == FillDefaults(logs)
    IN  IF f.err = "ok"
          THEN [err |-> "ok", exists |-> TRUE, disk |-> f.logs, logs |-> f.logs]
          ELSE [err |-> f.err, exists |-> ex, disk |-> dk, logs |-> f.logs]

\* faulty variant of read_log: returns the completed structure, saves nothing
ReadLogNoSave(ex, dk) ==
    LET logs0 == IF ex THEN dk ELSE EmptyDict
        f == FillDefaults(logs0)
    IN  [err |-> f.err, exists |-> ex, disk |-> dk, logs |-> f.logs]

\* read_log(path): loads the file (or {}), fills the defaults, saves, returns
ReadLog(ex, dk) ==
    LET logs0 == IF ex THEN dk ELSE EmptyDict
        f == FillDefaults(logs0)
    IN  IF f.err = "ok"
          THEN SaveLog(ex, dk, f.logs)
          ELSE [err |-> f.err, exists |-> ex, disk |-> dk, logs |-> f.logs]

\* ------------------------------------------------- artifacts (mne objects)
\* Only the capability surface the code touches is modelled.
\*   raw    : filenames[0].name, info["bads"]
\*   epochs : filename.name, info["bads"], tmin, tmax, selection, events,
\*            drop_log, drop()
\*   ica    : path.name, ch_names, fit_params, n_components, info[...], exclude
\* An epochs artifact keeps one drop_log entry per original event; its
\* selection is the original indices whose entry is empty, and events holds
\* the onset sample of each selected segment.
Arange(n) == [i \in 1..n |-> i - 1]
Selection(drop_log) ==
    SelectSeq(Arange(Len(drop_log)), LAMBDA i : Len(drop_log[i + 1]) = 0)
Events(epochs) ==
    LET sel == Selection(epochs.drop_log)
    IN  [p \in 1..Len(sel) |-> epochs.samples[sel[p] + 1]]

\* epochs.drop(indices, reason): drops the segments at the given positions
\* of the current selection and tags their drop_log entry with the reason;
\* a position outside the current segments is an IndexError
Drop(epochs, indices, reason) ==
    LET sel == Selection(epochs.drop_log)
        orig == {sel[p + 1] : p \in {q \in Range(indices) : q < Len(sel)}}
    IN  IF \E q \in Range(indices) : q >= Len(sel)
          THEN [err |-> "IndexError", inst |-> epochs]
          ELSE [err |-> "ok",
                inst |-> [epochs EXCEPT !.drop_log =
                            [i \in 1..Len(epochs.drop_log) |->
                               IF (i - 1) \in orig THEN <<reason>>
                               ELSE epochs.drop_log[i]]]]

\* ------------------------------------------------- io.py: parameter checks
\* faulty variant of _check_epochs_params: snapshots over a stored snapshot
CheckEpochsParamsAlwaysSnapshot(epochs, t_log) ==
    [err |-> "ok", field |-> "",
     t_log |-> Put(t_log, "params",
                   [tmin |-> epochs.tmin, tmax |-> epochs.tmax,
                    events |-> Events(epochs)])]

\* faulty variant of _check_epochs_params: compares tmin only
CheckEpochsParamsNoTmax(epochs, t_log) ==
    IF ~Has(t_log, "params")
      THEN CheckEpochsParamsAlwaysSnapshot(epochs, t_log)
      ELSE IF epochs.tmin # t_log["params"]["tmin"]
             THEN [err |-> "ParameterMismatch", field |-> "tmin", t_log |-> t_log]
             ELSE [err |-> "ok", field |-> "", t_log |-> t_log]

\* _check_epochs_params(epochs, t_log): <<error, field, t_log>>
CheckEpochsParams(epochs, t_log) ==
    IF ~Has(t_log, "params")
      THEN [err |-> "ok", field |-> "",
            t_log |-> Put(t_log, "params",
                          [tmin |-> epochs.tmin, tmax |-> epochs.tmax,
                           events |-> Events(epochs)])]
      ELSE IF epochs.tmin # t_log["params"]["tmin"]
             THEN [err |-> "ParameterMismatch", field |-> "tmin", t_log |-> t_log]
      ELSE IF epochs.tmax # t_log["params"]["tmax"]
             THEN [err |-> "ParameterMismatch", field |-> "tmax", t_log |-> t_log]
      ELSE LET this_selection == Selection(epochs.drop_log)
               prev_selection == Get(t_log, "selection", Arange(Len(this_selection)))
               inter == Range(this_selection) \cap Range(prev_selection)
               this_events == Events(epochs)
               to_check == {this_events[i] : i \in {j \in 1..Len(this_selection) :
                                                     this_selection[j] \in inter}}
               prev_events == t_log["params"]["events"]
           IN  IF ~(\A x \in to_check : x \in Range(prev_events))
                 THEN [err |-> "ParameterMismatch", field |-> "events", t_log |-> t_log]
                 ELSE [err |-> "ok", field |-> "", t_log |-> t_log]

IcaFields == <<"ch_names", "fit_params", "n_components", "highpass", "lowpass", "sfreq">>

\* the six fields of an artifact, as the snapshot stores them
IcaParamsOf(ica) == [k \in Range(IcaFields) |-> ica[k]]

\* _check_ica_params(ica, t_log): <<error, field, t_log>>; the first field
\* that differs, in the order of the code, names the error
CheckIcaParams(ica, t_log) ==
    IF ~Has(t_log, "params")
      THEN [err |-> "ok", field |-> "", t_log |-> Put(t_log, "params", IcaParamsOf(ica))]
      ELSE LET bad == {i \in 1..Len(IcaFields) :
                          ica[IcaFields[i]] # t_log["params"][IcaFields[i]]}
           IN  IF bad # {}
                 THEN [err |-> "ParameterMismatch",
                       field |-> IcaFields[CHOOSE i \in bad : \A j \in bad : i <= j],
                       t_log |-> t_log]
                 ELSE [err |-> "ok", field |-> "", t_log |-> t_log]

\* ------------------------------------------------ applier.py: reject, by kind
\* faulty variants of the merge: one side only
MixBadsRuntimeOnly(old_bads, bads) == bads

MixBadsStoredOnly(old_bads, bads) == old_bads

\* list(set(old_bads + inst.info["bads"]))
MixBads(old_bads, bads) == old_bads \cup bads

\* raw branch of reject: <<error, inst>>
RejectRaw(inst, logs) ==
    LET t_log == Get(logs["raws"], inst.fname, EmptyDict)
        old_bads == Get(t_log, "bads", {})
    IN  [err |-> "ok", field |-> "",
         inst |-> [inst EXCEPT !.bads = MixBads(old_bads, inst.bads)]]

\* faulty variant of the loop below: appends i_epoch instead of cur_idx
RECURSIVE DropIdxByIndex(_, _, _, _)
DropIdxByIndex(drop_log, to_drop, i_epoch, cur_idx) ==
    IF i_epoch >= Len(drop_log) THEN <<>>
    ELSE IF Len(drop_log[i_epoch + 1]) = 0
      THEN (IF i_epoch \in Range(to_drop) THEN <<i_epoch>> ELSE <<>>)
             \o DropIdxByIndex(drop_log, to_drop, i_epoch + 1, cur_idx + 1)
      ELSE DropIdxByIndex(drop_log, to_drop, i_epoch + 1, cur_idx)

\* the loop of reject over inst.drop_log that turns the original indices to
\* drop into positions among the segments whose entry is empty
RECURSIVE DropIdx(_, _, _, _)
DropIdx(drop_log, to_drop, i_epoch, cur_idx) ==
    IF i_epoch >= Len(drop_log) THEN <<>>
    ELSE IF Len(drop_log[i_epoch + 1]) = 0
      THEN (IF i_epoch \in Range(to_drop) THEN <<cur_idx>> ELSE <<>>)
             \o DropIdx(drop_log, to_drop, i_epoch + 1, cur_idx + 1)
      ELSE DropIdx(drop_log, to_drop, i_epoch + 1, cur_idx)

\* the part of the epochs branch that follows the parameter check
ApplyEpochs(inst, t_log) ==
    LET old_bads == Get(t_log, "bads", {})
        mixed == [inst EXCEPT !.bads = MixBads(old_bads, inst.bads)]
        sel == Selection(inst.drop_log)
        prev_selection == Get(t_log, "selection", sel)
        to_drop == SelectSeq(sel, LAMBDA x : x \notin Range(prev_selection))
        drop_idx == DropIdx(inst.drop_log, to_drop, 0, 0)
        d == Drop(mixed, drop_idx, "Inspection")
    IN  [err |-> d.err, field |-> "", inst |-> d.inst]

\* faulty variant of the epochs branch: merges the bads before the check
RejectEpochsMergeBeforeCheck(inst, logs) ==
    LET t_log == Get(logs["epochs"], inst.fname, EmptyDict)
        c == CheckEpochsParams(inst, t_log)
    IN  IF c.err # "ok"
          THEN [err |-> c.err, field |-> c.field,
                inst |-> [inst EXCEPT !.bads = MixBads(Get(t_log, "bads", {}), inst.bads)]]
          ELSE ApplyEpochs(inst, c.t_log)

\* epochs branch of reject: <<error, inst>>
RejectEpochs(inst, logs) ==
    LET t_log == Get(logs["epochs"], inst.fname, EmptyDict)
        c == CheckEpochsParams(inst, t_log)
    IN  IF c.err # "ok"
          THEN [err |-> c.err, field |-> c.field, inst |-> inst]
          ELSE ApplyEpochs(inst, c.t_log)

\* faulty variants: the stored list put before the artifact's list; the
\* artifact's list as the default
NewExcludeMerged(t_log, exclude) == Get(t_log, "exclude", <<>>) \o exclude

NewExcludeKeepsRuntime(t_log, exclude) == Get(t_log, "exclude", exclude)

\* inst.exclude = t_log.get("exclude", [])
NewExclude(t_log, exclude) == Get(t_log, "exclude", <<>>)

\* ICA branch of reject: <<error, inst>>
RejectIca(inst, logs) ==
    LET t_log == Get(logs["icas"], inst.fname, EmptyDict)
        c == CheckIcaParams(inst, t_log)
    IN  IF c.err # "ok"
          THEN [err |-> c.err, field |-> c.field, inst |-> inst]
          ELSE [err |-> "ok", field |-> "",
                inst |-> [inst EXCEPT !.exclude = NewExclude(c.t_log, inst.exclude)]]

RejectByKind(inst, logs) ==
    CASE inst.kind = "raws" -> RejectRaw(inst, logs)
      [] inst.kind = "epochs" -> RejectEpochs(inst, logs)
      [] inst.kind = "icas" -> RejectIca(inst, logs)

\* ---------------------------------------------- io.py: update_log, by kind
\* "t_log = logs[kind].get(fname, {}) ... if fname not in logs[kind]:
\* logs[kind][fname] = t_log".  When the filename has a record, t_log is that
\* very dict, so the assignments to t_log are assignments to the record; when
\* it has none, the new dict is inserted.  Either way the mapping ends up
\* holding t_log.  (Faulty variant first: t_log taken as a copy, so that a
\* record once stored is never rewritten.)
StoreBackIfAbsent(mapping, fname, t_log) ==
    IF Has(mapping, fname) THEN mapping ELSE Put(mapping, fname, t_log)

\* faulty variant: the mapping rebuilt with the one record
StoreBackAlone(mapping, fname, t_log) == Put(EmptyDict, fname, t_log)

StoreBack(mapping, fname, t_log) == Put(mapping, fname, t_log)

\* faulty variant: adds the artifact's bads to the stored ones
SetBadsUnion(t_log, bads) == Put(t_log, "bads", Get(t_log, "bads", {}) \cup bads)

\* t_log["bads"] = inst.info["bads"]
SetBads(t_log, bads) == Put(t_log, "bads", bads)

\* raw branch: <<error, logs>>
UpdateRaw(inst, logs) ==
    LET t_log == Get(logs["raws"], inst.fname, EmptyDict)
        t1 == SetBads(t_log, inst.bads)
    IN  [err |-> "ok", field |-> "",
         logs |-> Put(logs, "raws", StoreBack(logs["raws"], inst.fname, t1))]

\* epochs branch: <<error, logs>>; the list "dropped" is only logged
UpdateEpochs(inst, logs) ==
    LET t_log == Get(logs["epochs"], inst.fname, EmptyDict)
        c == CheckEpochsParams(inst, t_log)
        t1 == SetBads(c.t_log, inst.bads)
        t2 == Put(t1, "selection", Selection(inst.drop_log))
    IN  IF c.err # "ok"
          THEN [err |-> c.err, field |-> c.field, logs |-> logs]
          ELSE [err |-> "ok", field |-> "",
                logs |-> Put(logs, "epochs", StoreBack(logs["epochs"], inst.fname, t2))]

\* ICA branch: <<error, logs>>
UpdateIca(inst, logs) ==
    LET t_log == Get(logs["icas"], inst.fname, EmptyDict)
        c == CheckIcaParams(inst, t_log)
        t1 == Put(c.t_log, "exclude", inst.exclude)
    IN  IF c.err # "ok"
          THEN [err |-> c.err, field |-> c.field, logs |-> logs]
          ELSE [err |-> "ok", field |-> "",
                logs |-> Put(logs, "icas", StoreBack(logs["icas"], inst.fname, t1))]

UpdateByKind(inst, logs) ==
    CASE inst.kind = "raws" -> UpdateRaw(inst, logs)
      [] inst.kind = "epochs" -> UpdateEpochs(inst, logs)
      [] inst.kind = "icas" -> UpdateIca(inst, logs)

\* ---------------------------------------------- applier.py: is_cleaned
\* faulty variant of is_cleaned: looks the name up under "raws" whatever the
\* kind
IsCleanedUnderRaws(ex, dk, name, kind) ==
    IF kind \notin Kinds
      THEN [err |-> "InvalidKind", ret |-> FALSE, exists |-> ex, disk |-> dk]
    ELSE IF ~ex
      THEN [err |-> "ok", ret |-> FALSE, exists |-> ex, disk |-> dk]
    ELSE LET r == ReadLog(ex, dk)
         IN  IF r.err # "ok"
               THEN [err |-> r.err, ret |-> FALSE, exists |-> r.exists, disk |-> r.disk]
               ELSE [err |-> "ok", ret |-> Has(r.logs["raws"], name),
                     exists |-> r.exists, disk |-> r.disk]

\* is_cleaned(path, kind): <<error, returned value, exists, disk>>
IsCleaned(ex, dk, name, kind) ==
    IF kind \notin Kinds
      THEN [err |-> "InvalidKind", ret |-> FALSE, exists |-> ex, disk |-> dk]
    ELSE IF ~ex
      THEN [err |-> "ok", ret |-> FALSE, exists |-> ex, disk |-> dk]
    ELSE LET r == ReadLog(ex, dk)
         IN  IF r.err # "ok"
               THEN [err |-> r.err, ret |-> FALSE, exists |-> r.exists, disk |-> r.disk]
               ELSE [err |-> "ok", ret |-> Has(r.logs[kind], name),
                     exists |-> r.exists, disk |-> r.disk]

\* ------------------------------------------------------------------- inputs
\* artifacts as the processing pipeline hands them over
FreshRaws == {[kind |-> "raws", fname |-> f, bads |-> {}] : f \in RawFiles}

\* ways of cutting the epochs: tmin, tmax and the onset sample of each event
Cuts == {[tmin |-> 0, tmax |-> 1, shift |-> 0], [tmin |-> -1, tmax |-> 1, shift |-> 0],
         [tmin |-> 0, tmax |-> 2, shift |-> 0], [tmin |-> 0, tmax |-> 1, shift |-> 1]}
Samples(shift) == [i \in 1..NEpochs |-> 10 * (i + shift)]
FreshEpochs ==
    {[kind |-> "epochs", fname |-> f, bads |-> {}, tmin |-> c.tmin, tmax |-> c.tmax,
      samples |-> Samples(c.shift), drop_log |-> [i \in 1..NEpochs |-> <<>>]] :
        f \in EpochsFiles, c \in Cuts}

IcaBase == [ch_names |-> <<"c1", "c2">>, fit_params |-> [max_iter |-> 200],
            n_components |-> 15, highpass |-> 1, lowpass |-> 40, sfreq |-> 250]
IcaFits == {IcaBase, [IcaBase EXCEPT !.ch_names = <<"c2", "c1">>],
            [IcaBase EXCEPT !.fit_params = [max_iter |-> 500]],
            [IcaBase EXCEPT !.n_components = 20], [IcaBase EXCEPT !.highpass = 0],
            [IcaBase EXCEPT !.lowpass = 45], [IcaBase EXCEPT !.sfreq = 500]}
FreshIcas ==
    {[kind |-> "icas", fname |-> f, exclude |-> <<>>, ch_names |-> p.ch_names,
      fit_params |-> p.fit_params, n_components |-> p.n_components,
      highpass |-> p.highpass, lowpass |-> p.lowpass, sfreq |-> p.sfreq] :
        f \in IcaFiles, p \in IcaFits}
Fresh(kind) ==
    CASE kind = "raws" -> FreshRaws
      [] kind = "epochs" -> FreshEpochs
      [] kind = "icas" -> FreshIcas
ChannelsOf(kind) == IF kind = "raws" THEN RawChannels ELSE EpochsChannels

\* contents of eeg_cleaner.json found in a directory before the first call:
\* lacking some of the top-level keys, or written by an earlier session
\* (records of other files, an older version tag, a key added by hand)
OldRecords ==
    [raws |-> [k \in {"old_raw.fif"} |-> [bads |-> {"c1"}]],
     epochs |-> [k \in {"old_epo.fif"} |->
                   [params |-> [tmin |-> 0, tmax |-> 1, events |-> <<10>>],
                    bads |-> {"c2"}, selection |-> <<0>>]],
     icas |-> EmptyDict]
ConfigEntries == {EmptyDict, [version |-> GitHash]}
EmptyFiles ==
    {[k \in K \cup C |-> IF k = "config" THEN cfg ELSE EmptyDict] :
        K \in SUBSET Kinds, C \in SUBSET {"config"}, cfg \in ConfigEntries}
OldFiles ==
    {[raws |-> OldRecords.raws, epochs |-> OldRecords.epochs, icas |-> OldRecords.icas,
      config |-> [version |-> "v1"], notes |-> "kept"],
     [raws |-> OldRecords.raws, epochs |-> OldRecords.epochs,
      config |-> [version |-> "v1"], notes |-> "kept"]}
InitFiles == EmptyFiles \cup OldFiles

\* -------------------------------------------------------------------- state
VARIABLES
    exists,   \* whether eeg_cleaner.json exists in the directory
    disk,     \* its content (EmptyDict while it does not exist)
    inst,     \* the artifact the session holds in memory
    last,     \* the last call: operation, error raised, field, value returned
    rt,       \* round-trip sessions: the step the session is at
    hist,     \* round-trip sessions: per filename, the bads each round trip stored
    procs,    \* concurrent update_log calls: per call, its position, its artifact
              \* and the structure it has loaded
    order     \* concurrent update_log calls: the calls in the order they wrote

vars == <<exists, disk, inst, last, rt, hist, procs, order>>

AllFiles == RawFiles \cup EpochsFiles \cup IcaFiles
\* lost: the channels the call removed from the stored bads of the filename
Call(op, err, field, ret, lost) ==
    [op |-> op, err |-> err, field |-> field, ret |-> ret, lost |-> lost]
UserStep == Call("user", "ok", "", FALSE, {})

\* the record a file holds for a filename (EmptyDict when it holds none)
HasRecordIn(ex, dk, kind, fname) == ex /\ Has(dk, kind) /\ Has(dk[kind], fname)
StoredIn(ex, dk, kind, fname) ==
    IF HasRecordIn(ex, dk, kind, fname) THEN dk[kind][fname] ELSE EmptyDict
HasRecord(kind, fname) == HasRecordIn(exists, disk, kind, fname)
Stored(kind, fname) == StoredIn(exists, disk, kind, fname)
\* the filenames a file holds a record for
NamesIn(ex, dk, kind) == IF ex /\ Has(dk, kind) THEN DOMAIN dk[kind] ELSE {}

Init ==
    /\ \/ exists = FALSE /\ disk = EmptyDict
       \/ exists = TRUE /\ disk \in InitFiles
    /\ inst \in UNION {Fresh(k) : k \in Kinds}
    /\ last = Call("none", "ok", "", FALSE, {})
    /\ rt = "loaded"
    /\ hist = [f \in AllFiles |-> {}]
    /\ procs = <<>>
    /\ order = <<>>

\* -------------------------------------------------- the session (callers)
\* A behaviour is the work of one pipeline stage on one directory: it
\* handles artifacts of one kind, chosen by Init, over a file that may hold
\* records of the other kinds.
\* the pipeline reprocesses the data and hands over a new artifact
LoadStep ==
    /\ inst' \in Fresh(inst.kind)
    /\ last' = UserStep
    /\ UNCHANGED <<exists, disk>>

\* the reviewer flags a channel
MarkBadStep ==
    /\ inst.kind \in {"raws", "epochs"}
    /\ \E c \in ChannelsOf(inst.kind) \ inst.bads : inst' = [inst EXCEPT !.bads = @ \cup {c}]
    /\ last' = UserStep
    /\ UNCHANGED <<exists, disk>>

\* the reviewer clears a flag
UnmarkBadStep ==
    /\ inst.kind \in {"raws", "epochs"}
    /\ \E c \in inst.bads : inst' = [inst EXCEPT !.bads = @ \ {c}]
    /\ last' = UserStep
    /\ UNCHANGED <<exists, disk>>

\* the reviewer drops a segment
UserDropStep ==
    /\ inst.kind = "epochs"
    /\ \E p \in 0..(Len(Selection(inst.drop_log)) - 1) :
          inst' = Drop(inst, <<p>>, "USER").inst
    /\ last' = UserStep
    /\ UNCHANGED <<exists, disk>>

\* the reviewer marks a component for exclusion, or clears a mark
SetExcludeStep ==
    /\ inst.kind = "icas"
    /\ \E c \in 0..(NComponents - 1) :
          inst' = [inst EXCEPT !.exclude =
                     IF c \in Range(@) THEN SelectSeq(@, LAMBDA x : x # c)
                     ELSE Append(@, c)]
    /\ last' = UserStep
    /\ UNCHANGED <<exists, disk>>

\* --------------------------------------------------------------- the calls
\* read_log and is_cleaned take a path and no artifact.  They are made with
\* the path of the session's artifact while the reviewer has not touched it:
\* every content of the file is met in such a state, since an artifact can
\* be loaded at any time.
Untouched == inst \in Fresh(inst.kind)

\* read_log(path)
ReadLogStep ==
    LET r == ReadLog(exists, disk)
    IN  /\ Untouched
        /\ exists' = r.exists
        /\ disk' = r.disk
        /\ last' = Call("read_log", r.err, "", FALSE, {})
        /\ inst' = inst

\* faulty variant of reject: reads the log before looking for the file
RejectStepReadsFirst(required) ==
    LET r == ReadLog(exists, disk)
        a == RejectByKind(inst, r.logs)
    IN  /\ exists' = r.exists
        /\ disk' = r.disk
        /\ IF r.err # "ok"
             THEN /\ inst' = inst
                  /\ last' = Call("reject", r.err, "", FALSE, {})
           ELSE IF ~exists /\ required
             THEN /\ inst' = inst
                  /\ last' = Call("reject", "MissingLog", "", FALSE, {})
             ELSE /\ inst' = a.inst
                  /\ last' = Call("reject", a.err, a.field, FALSE, {})

\* faulty variant of reject: the record looked up with setdefault and the
\* log saved at the end, so that the params snapshot is persisted
RejectStepSavesSnapshot(required) ==
    IF ~exists /\ required
      THEN /\ last' = Call("reject", "MissingLog", "", FALSE, {})
           /\ UNCHANGED <<exists, disk, inst>>
      ELSE LET r == ReadLog(exists, disk)
               a == RejectByKind(inst, r.logs)
               t_log == Get(r.logs[inst.kind], inst.fname, EmptyDict)
               t1 == CASE inst.kind = "epochs" -> CheckEpochsParams(inst, t_log).t_log
                       [] inst.kind = "icas" -> CheckIcaParams(inst, t_log).t_log
                       [] OTHER -> t_log
               w == SaveLog(r.exists, r.disk,
                            Put(r.logs, inst.kind, Put(r.logs[inst.kind], inst.fname, t1)))
           IN  IF r.err # "ok"
                 THEN /\ exists' = r.exists /\ disk' = r.disk /\ inst' = inst
                      /\ last' = Call("reject", r.err, "", FALSE, {})
                 ELSE /\ exists' = w.exists /\ disk' = w.disk /\ inst' = a.inst
                      /\ last' = Call("reject", a.err, a.field, FALSE, {})

\* reject(path, inst, required)
RejectStep(required) ==
    IF ~exists /\ required
      THEN /\ last' = Call("reject", "MissingLog", "", FALSE, {})
           /\ UNCHANGED <<exists, disk, inst>>
      ELSE LET r == ReadLog(exists, disk)
               a == RejectByKind(inst, r.logs)
           IN  /\ exists' = r.exists
               /\ disk' = r.disk
               /\ IF r.err # "ok"
                    THEN /\ inst' = inst
                         /\ last' = Call("reject", r.err, "", FALSE, {})
                    ELSE /\ inst' = a.inst
                         /\ last' = Call("reject", a.err, a.field, FALSE, {})

\* update_log(path, inst)
UpdateLogStep ==
    LET r == ReadLog(exists, disk)
        u == UpdateByKind(inst, r.logs)
        w == SaveLog(r.exists, r.disk, u.logs)
    IN  /\ IF r.err # "ok"
             THEN /\ exists' = r.exists /\ disk' = r.disk
                  /\ last' = Call("update_log", r.err, "", FALSE, {})
           ELSE IF u.err # "ok"
             THEN /\ exists' = r.exists /\ disk' = r.disk
                  /\ last' = Call("update_log", u.err, u.field, FALSE, {})
             ELSE /\ exists' = w.exists /\ disk' = w.disk
                  /\ last' = Call("update_log", w.err, "", FALSE,
                                  Get(Stored(inst.kind, inst.fname), "bads", {})
                                    \ Get(w.disk[inst.kind][inst.fname], "bads", {}))
        /\ inst' = inst

\* is_cleaned(path, kind)
IsCleanedStep(kind) ==
    LET r == IsCleaned(exists, disk, inst.fname, kind)
    IN  /\ Untouched
        /\ exists' = r.exists
        /\ disk' = r.disk
        /\ last' = Call("is_cleaned", r.err, "", r.ret, {})
        /\ inst' = inst

\* ------------------------------------------------- any sequence of calls
Load == LoadStep /\ UNCHANGED <<rt, hist, procs, order>>
MarkBad == MarkBadStep /\ UNCHANGED <<rt, hist, procs, order>>
UnmarkBad == UnmarkBadStep /\ UNCHANGED <<rt, hist, procs, order>>
UserDrop == UserDropStep /\ UNCHANGED <<rt, hist, procs, order>>
SetExclude == SetExcludeStep /\ UNCHANGED <<rt, hist, procs, order>>
DoReadLog == ReadLogStep /\ UNCHANGED <<rt, hist, procs, order>>
DoReject == (\E required \in BOOLEAN : RejectStep(required)) /\ UNCHANGED <<rt, hist, procs, order>>
DoUpdateLog == UpdateLogStep /\ UNCHANGED <<rt, hist, procs, order>>
DoIsCleaned == (\E kind \in Kinds \cup {"bogus"} : IsCleanedStep(kind)) /\ UNCHANGED <<rt, hist, procs, order>>

Next ==
    \/ Load
    \/ MarkBad
    \/ UnmarkBad
    \/ UserDrop
    \/ SetExclude
    \/ DoReadLog
    \/ DoReject
    \/ DoUpdateLog
    \/ DoIsCleaned

Spec == Init /\ [][Next]_vars

\* -------------------------------------- successive round-trip sessions
\* load, reject, review (flag channels, drop segments), update_log, and
\* again; hist collects the bads every round trip left in the file.  A
\* reject that raises ends the session: the caller gets no artifact back to
\* review, and the next session starts with a new artifact.
InitRT == Init /\ inst.kind \in {"raws", "epochs"}

RtLoad == rt = "updated" /\ LoadStep /\ rt' = "loaded" /\ UNCHANGED <<hist, procs, order>>
RtMarkBad == rt \in {"loaded", "applied"} /\ MarkBadStep /\ UNCHANGED <<rt, hist, procs, order>>
RtUserDrop == rt = "applied" /\ UserDropStep /\ UNCHANGED <<rt, hist, procs, order>>
RtReject ==
    /\ rt = "loaded"
    /\ \E required \in BOOLEAN : RejectStep(required)
    /\ rt' = IF last'.err = "ok" THEN "applied" ELSE "updated"
    /\ UNCHANGED <<hist, procs, order>>
RtUpdateLog ==
    /\ rt = "applied"
    /\ UpdateLogStep
    /\ rt' = "updated"
    /\ hist' = IF last'.err = "ok"
                 THEN [hist EXCEPT ![inst.fname] =
                         @ \cup {disk'[inst.kind][inst.fname]["bads"]}]
                 ELSE hist
    /\ UNCHANGED <<procs, order>>

NextRT ==
    \/ RtLoad
    \/ RtMarkBad
    \/ RtUserDrop
    \/ RtReject
    \/ RtUpdateLog

SpecRT == InitRT /\ [][NextRT]_vars

\* =================================================================== claims
ParamKinds == {"epochs", "icas"}
BadsKinds == {"raws", "epochs"}
UpdateDone == last'.op = "update_log" /\ last'.err = "ok"
StoredAfter(kind, fname) == StoredIn(exists', disk', kind, fname)

\* what update_log takes from the artifact: bads (raw), bads and selection
\* (epochs), exclude (ICA)
DataOf(a) ==
    CASE a.kind = "raws" -> [bads |-> a.bads]
      [] a.kind = "epochs" -> [bads |-> a.bads, selection |-> Selection(a.drop_log)]
      [] a.kind = "icas" -> [exclude |-> a.exclude]
DataIn(record) == [k \in DOMAIN record \ {"params"} |-> record[k]]

\* C1 as stated (write-once): an update_log call for a filename that already
\* has a record leaves the stored record unchanged.
C1_WriteOnce ==
    [][(last'.op = "update_log" /\ HasRecord(inst.kind, inst.fname))
         => StoredAfter(inst.kind, inst.fname) = Stored(inst.kind, inst.fname)]_vars

\* C1 amended: a successful update_log call for a filename that already has
\* a record keeps the stored params and replaces the stored bads / selection
\* / exclude by the artifact's, so after two successive updates the record
\* has the params of the first and the data of the second; a failed call
\* leaves the record unchanged.
C1_UpdateReplacesData ==
    [][(last'.op = "update_log" /\ HasRecord(inst.kind, inst.fname))
         => IF last'.err = "ok"
              THEN /\ DataIn(StoredAfter(inst.kind, inst.fname)) = DataOf(inst)
                   /\ inst.kind \in ParamKinds =>
                        StoredAfter(inst.kind, inst.fname)["params"]
                          = Stored(inst.kind, inst.fname)["params"]
              ELSE StoredAfter(inst.kind, inst.fname) = Stored(inst.kind, inst.fname)]_vars

\* a second update has stored a selection shorter than the event list the
\* first update snapshotted
C1_Witness ==
    /\ last.op = "update_log" /\ last.err = "ok" /\ inst.kind = "epochs"
    /\ Len(Stored("epochs", inst.fname)["selection"])
         < Len(Stored("epochs", inst.fname)["params"]["events"])

\* C2: the params persisted for a filename (epochs, ICA) are the same in
\* every later state of the file, whatever call is made and whether it
\* succeeds or fails.
C2_ParamsImmutable ==
    [][\A kind \in ParamKinds : \A f \in NamesIn(exists, disk, kind) :
          Has(disk[kind][f], "params")
            => /\ HasRecordIn(exists', disk', kind, f)
               /\ Has(disk'[kind][f], "params")
               /\ disk'[kind][f]["params"] = disk[kind][f]["params"]]_vars

\* a successful update with an artifact whose events are not the snapshotted
\* ones
C2_Witness ==
    /\ last.op = "update_log" /\ last.err = "ok" /\ inst.kind = "epochs"
    /\ Stored("epochs", inst.fname)["params"]["events"] # Events(inst)

\* the artifact differs from a snapshot in tmin or tmax (epochs) or in one of
\* the six fields (ICA)
ParamsDiffer(a, params) ==
    CASE a.kind = "epochs" -> a.tmin # params["tmin"] \/ a.tmax # params["tmax"]
      [] a.kind = "icas" ->
           \/ a.ch_names # params["ch_names"]
           \/ a.fit_params # params["fit_params"]
           \/ a.n_components # params["n_components"]
           \/ a.highpass # params["highpass"]
           \/ a.lowpass # params["lowpass"]
           \/ a.sfreq # params["sfreq"]
      [] OTHER -> FALSE

\* C3: with a record with params stored for the filename, a reject or
\* update_log call with an artifact that differs from the snapshot fails
\* with a parameter mismatch and leaves the stored record as it was.
C3_ParameterGating ==
    [][(/\ last'.op \in {"reject", "update_log"}
        /\ inst.kind \in ParamKinds
        /\ HasRecord(inst.kind, inst.fname)
        /\ Has(Stored(inst.kind, inst.fname), "params")
        /\ ParamsDiffer(inst, Stored(inst.kind, inst.fname)["params"]))
         => /\ last'.err = "ParameterMismatch"
            /\ StoredAfter(inst.kind, inst.fname) = Stored(inst.kind, inst.fname)]_vars

\* an update_log call has just failed on tmax
C3_Witness ==
    /\ last.op = "update_log" /\ last.err = "ParameterMismatch" /\ last.field = "tmax"
    /\ inst.tmax # Stored("epochs", inst.fname)["params"]["tmax"]

\* C4: a reject that fails with a parameter mismatch leaves the artifact as
\* it was.
C4_NoPartialApplication ==
    [][(last'.op = "reject" /\ last'.err = "ParameterMismatch") => inst' = inst]_vars

\* a reject has just failed while the record holds a bad channel the
\* artifact does not have
C4_Witness ==
    /\ last.op = "reject" /\ last.err = "ParameterMismatch" /\ inst.kind = "epochs"
    /\ ~(Stored("epochs", inst.fname)["bads"] \subseteq inst.bads)

\* C5 as stated: a reject call neither creates the log file nor writes to
\* it.
C5_RejectLeavesFile ==
    [][last'.op = "reject" => (exists' = exists /\ disk' = disk)]_vars

\* the file content with the absent ones of raws, epochs, icas and config
\* added (empty mappings, the current version tag) and nothing else changed
Completes(new, old) ==
    /\ DOMAIN new = DOMAIN old \cup Kinds \cup {"config"}
    /\ \A k \in DOMAIN old : new[k] = old[k]
    /\ \A k \in Kinds \ DOMAIN old : new[k] = EmptyDict
    /\ "config" \notin DOMAIN old => new["config"] = [version |-> GitHash]

\* C5 amended: reject does write the file, through read_log: unless it
\* fails before or while reading the log (no file and required=true, or a
\* config entry without version), it leaves a file that exists and holds
\* what it held before plus the absent ones of raws, epochs, icas and
\* config; so it creates a missing file, completes one that lacks keys, and
\* leaves a complete file's content as it was.  When it fails before or
\* while reading, the file is untouched.
C5_RejectWritesOnlyDefaults ==
    [][last'.op = "reject"
         => IF last'.err \in {"MissingLog", "KeyError"}
              THEN exists' = exists /\ disk' = disk
              ELSE /\ exists'
                   /\ Completes(disk', IF exists THEN disk ELSE EmptyDict)
                   /\ (exists /\ Kinds \cup {"config"} \subseteq DOMAIN disk) => disk' = disk]_vars

\* a reject has just run in a directory whose file it had to create or
\* complete: the file holds no record and the current version tag
C5_Witness ==
    /\ last.op = "reject" /\ last.err = "ok" /\ exists
    /\ disk = [raws |-> EmptyDict, epochs |-> EmptyDict, icas |-> EmptyDict,
               config |-> [version |-> GitHash]]

KindOfFile(f) == IF f \in RawFiles THEN "raws" ELSE "epochs"

\* C6: in successive reject -> review -> update_log round trips in which the
\* reviewer only adds bad channels, the bads stored for a raw or epochs
\* filename contain the bads stored by every earlier round trip.
C6_MonotonicBads ==
    \A f \in RawFiles \cup EpochsFiles : \A b \in hist[f] :
        b \subseteq Get(Stored(KindOfFile(f), f), "bads", {})

\* two round trips have stored two different sets for a filename
C6_Witness ==
    /\ rt = "updated" /\ last.op = "update_log" /\ last.err = "ok"
    /\ Cardinality(hist[inst.fname]) >= 2

\* C7 as stated: a channel in the stored bads of a raw or epochs filename is
\* in them in every later state of the file.
C7_StoredBadsNeverShrink ==
    [][\A kind \in BadsKinds : \A f \in NamesIn(exists, disk, kind) :
          Get(disk[kind][f], "bads", {})
            \subseteq Get(StoredAfter(kind, f), "bads", {})]_vars

\* C7 amended: a successful update_log sets the stored bads of the
\* artifact's filename to the artifact's bads, so it removes the stored
\* channels the artifact does not have; no other call (reject, read_log,
\* is_cleaned, a failed update_log) and no update_log for another filename
\* removes a channel from the stored bads of a filename.
C7_OnlyUpdateRemovesBads ==
    [][/\ (UpdateDone /\ inst.kind \in BadsKinds)
            => StoredAfter(inst.kind, inst.fname)["bads"] = inst.bads
       /\ \A kind \in BadsKinds : \A f \in NamesIn(exists, disk, kind) :
             \/ Get(disk[kind][f], "bads", {}) \subseteq Get(StoredAfter(kind, f), "bads", {})
             \/ UpdateDone /\ inst.kind = kind /\ inst.fname = f]_vars

\* an update_log has just removed a channel from the stored bads
C7_Witness ==
    /\ last.op = "update_log" /\ last.err = "ok" /\ last.lost # {}
    /\ Stored(inst.kind, inst.fname)["bads"] = inst.bads

\* C8: a reject that directly follows a successful reject on the same
\* artifact succeeds and leaves the artifact as the first left it (bads,
\* selection and drop log, exclude); and no reject removes a bad channel the
\* artifact had.
C8_IdempotentReject ==
    [][/\ (last.op = "reject" /\ last.err = "ok" /\ last'.op = "reject")
            => (last'.err = "ok" /\ inst' = inst)
       /\ (last'.op = "reject" /\ inst.kind \in BadsKinds)
            => inst.bads \subseteq inst'.bads]_vars

\* a reject has just merged stored bads into an artifact that had others,
\* or dropped a segment, or replaced a non-empty exclude list
C8_Witness ==
    /\ last.op = "reject" /\ last.err = "ok" /\ HasRecord(inst.kind, inst.fname)
    /\ CASE inst.kind = "raws" ->
              Stored("raws", inst.fname)["bads"] \notin {{}, inst.bads}
         [] inst.kind = "epochs" ->
              \E i \in DOMAIN inst.drop_log : inst.drop_log[i] = <<"Inspection">>
         [] inst.kind = "icas" -> inst.exclude # <<>>

\* C9: a reject of an epochs artifact that passes the parameter check
\* succeeds; it tags "Inspection" exactly the selected original indices that
\* are not in the stored selection and leaves every other drop-log entry as
\* it was, so the selection becomes (current selection) intersect (stored
\* selection); with no stored selection it drops nothing.
C9_SelectionSubset ==
    [][(/\ last'.op = "reject" /\ inst.kind = "epochs"
        /\ last'.err \notin {"MissingLog", "KeyError", "ParameterMismatch"})
         => LET t_log == Stored("epochs", inst.fname)
                cur == Range(Selection(inst.drop_log))
                gone == IF Has(t_log, "selection")
                          THEN cur \ Range(t_log["selection"]) ELSE {}
            IN  /\ last'.err = "ok"
                /\ DOMAIN inst'.drop_log = DOMAIN inst.drop_log
                /\ \A i \in DOMAIN inst.drop_log :
                      inst'.drop_log[i] = IF (i - 1) \in gone THEN <<"Inspection">>
                                          ELSE inst.drop_log[i]
                /\ Range(Selection(inst'.drop_log)) = cur \ gone]_vars

\* a reject has just dropped original index 1, which was at position 0 of
\* the artifact's segments
C9_Witness ==
    /\ last.op = "reject" /\ last.err = "ok" /\ inst.kind = "epochs"
    /\ inst.drop_log[1] = <<"USER">> /\ inst.drop_log[2] = <<"Inspection">>

\* C10: after a successful reject of an ICA artifact its exclude list is the
\* stored exclude list of the filename, same elements in the same order,
\* and the empty list when the filename has no record.
C10_ExcludeReplaced ==
    [][(last'.op = "reject" /\ last'.err = "ok" /\ inst.kind = "icas")
         => inst'.exclude = IF HasRecord("icas", inst.fname)
                              THEN Stored("icas", inst.fname)["exclude"] ELSE <<>>]_vars

\* a reject has just set a stored list of two components, larger index first
C10_Witness ==
    /\ last.op = "reject" /\ last.err = "ok" /\ inst.kind = "icas"
    /\ Len(inst.exclude) = 2 /\ inst.exclude[1] > inst.exclude[2]
    /\ inst.exclude = Stored("icas", inst.fname)["exclude"]

\* the file has a config entry without version: reading the log raises
BrokenConfig == exists /\ Has(disk, "config") /\ ~Has(disk["config"], "version")

\* C11: an is_cleaned call with a kind among raws, epochs, icas returns true
\* exactly when the file exists and its mapping for the kind has an entry
\* for the filename (it returns nothing when reading the log raises), so it
\* returns false without a file; a successful update_log leaves an entry
\* for its filename and kind; an entry once there is there after every
\* call; a call with any other kind fails with an error.
C11_ReviewedPredicate ==
    [][/\ \A kind \in Kinds \cup {"bogus"} :
            IsCleanedStep(kind)
              => IF kind \notin Kinds THEN last'.err = "InvalidKind"
                 ELSE /\ last'.err = IF BrokenConfig THEN "KeyError" ELSE "ok"
                      /\ last'.ret <=> HasRecord(kind, inst.fname)
                      /\ last'.ret <=> HasRecordIn(exists', disk', kind, inst.fname)
       /\ UpdateDone => HasRecordIn(exists', disk', inst.kind, inst.fname)
       /\ \A kind \in Kinds : \A f \in NamesIn(exists, disk, kind) :
             HasRecordIn(exists', disk', kind, f)]_vars

\* is_cleaned has just returned true for the filename of the artifact
C11_Witness ==
    /\ last.op = "is_cleaned" /\ last.err = "ok" /\ last.ret
    /\ HasRecord(inst.kind, inst.fname)

\* C12: an is_cleaned call, whatever the file (absent, complete, lacking
\* some of raws, epochs, icas, config) and whatever the kind, neither
\* creates the log file nor changes its content.
C12_IsCleanedPureRead ==
    [][\A kind \in Kinds \cup {"bogus"} :
          IsCleanedStep(kind) => (exists' = exists /\ disk' = disk)]_vars

\* C13: whatever the file was (absent, lacking any of raws, epochs, icas,
\* config, or with a config entry without version), a read_log call
\* completes and leaves a file that has raws, epochs, icas and
\* config.version and still holds every record and extra key it held;
\* read_log returns that same structure.
C13_SelfHealing ==
    [][last'.op = "read_log"
         => LET old == IF exists THEN disk ELSE EmptyDict
            IN  /\ last'.err = "ok"
                /\ exists'
                /\ Kinds \cup {"config"} \subseteq DOMAIN disk'
                /\ Has(disk'["config"], "version")
                /\ \A k \in DOMAIN old \ {"config"} : Has(disk', k) /\ disk'[k] = old[k]
                /\ Has(old, "config") =>
                     \A k \in DOMAIN old["config"] :
                        Has(disk'["config"], k) /\ disk'["config"][k] = old["config"][k]
                /\ ReadLog(exists, disk).logs = disk']_vars

\* C14: whatever call is made (read_log, reject, is_cleaned, update_log and
\* the save_log in them), a log file that exists still exists afterwards,
\* with every top-level key it had, and for each kind every filename that
\* had a record still has one, with every key the record had.
C14_NothingDeleted ==
    [][exists
         => /\ exists'
            /\ DOMAIN disk \subseteq DOMAIN disk'
            /\ \A kind \in Kinds :
                  /\ NamesIn(exists, disk, kind) \subseteq NamesIn(exists', disk', kind)
                  /\ \A f \in NamesIn(exists, disk, kind) :
                        DOMAIN disk[kind][f] \subseteq DOMAIN disk'[kind][f]]_vars

\* an update_log has just added the record of a second filename of the
\* session to a file that held records of an earlier session
C14_Witness ==
    /\ last.op = "update_log" /\ last.err = "ok" /\ inst.kind = "raws"
    /\ NamesIn(exists, disk, "raws") = RawFiles \cup {"old_raw.fif"}
    /\ Has(disk, "notes")

\* C15: in a directory without log file, reject with required=true fails
\* with the missing-log error, creates no file and leaves the artifact as
\* it was; reject with required=false succeeds.
C15_MissingLog ==
    [][~exists
         => /\ RejectStep(TRUE)
                 => (last'.err = "MissingLog" /\ ~exists' /\ disk' = disk /\ inst' = inst)
            /\ RejectStep(FALSE) => last'.err = "ok"]_vars

\* a reject has just failed for want of a log file, on an artifact the
\* reviewer had flagged a channel of
C15_Witness ==
    /\ last.op = "reject" /\ last.err = "MissingLog" /\ ~exists
    /\ inst.kind = "raws" /\ inst.bads # {}

\* ------------------------------------ a record written without selection
\* _check_epochs_params and reject both provide for an epochs record that
\* has params and no selection (t_log.get("selection", ...)); update_log
\* itself always stores the two together, so such a record comes from a
\* file written by other means.  The session below starts from one: the
\* events snapshot is that of the unshifted cut.
LegacyFile ==
    [raws |-> EmptyDict,
     epochs |-> [k \in EpochsFiles |->
                   [params |-> [tmin |-> 0, tmax |-> 1, events |-> Samples(0)],
                    bads |-> {"c1"}]],
     icas |-> EmptyDict,
     config |-> [version |-> "v1"]]

InitLegacy ==
    /\ exists = TRUE
    /\ disk = LegacyFile
    /\ inst \in FreshEpochs
    /\ last = Call("none", "ok", "", FALSE, {})
    /\ rt = "loaded"
    /\ hist = [f \in AllFiles |-> {}]
    /\ procs = <<>>
    /\ order = <<>>

NextLegacy ==
    \/ Load
    \/ MarkBad
    \/ UnmarkBad
    \/ UserDrop
    \/ DoReadLog
    \/ DoReject
    \/ DoUpdateLog
    \/ DoIsCleaned

SpecLegacy == InitLegacy /\ [][NextLegacy]_vars

\* the onset samples the events check is to look up: those of the current
\* segments whose original index is in the stored selection, and of all the
\* current segments when the record has no selection
EventsToCheck(epochs, t_log) ==
    LET sel == Selection(epochs.drop_log)
        prev == IF Has(t_log, "selection") THEN t_log["selection"] ELSE sel
        ev == Events(epochs)
    IN  {ev[p] : p \in {q \in 1..Len(sel) : sel[q] \in Range(sel) \cap Range(prev)}}

\* C16: with params stored for the filename and tmin, tmax equal to the
\* artifact's, a reject or update_log call fails with an events mismatch
\* exactly when the onset sample of some segment to check (those in the
\* intersection of the current and the stored selection; every current
\* segment when no selection is stored) is not in the stored events list.
C16_EventsCheck ==
    [][(/\ last'.op \in {"reject", "update_log"}
        /\ last'.err \notin {"MissingLog", "KeyError"}
        /\ inst.kind = "epochs"
        /\ Has(Stored("epochs", inst.fname), "params")
        /\ ~ParamsDiffer(inst, Stored("epochs", inst.fname)["params"]))
         => ((last'.err = "ParameterMismatch" /\ last'.field = "events")
              <=> \E x \in EventsToCheck(inst, Stored("epochs", inst.fname)) :
                     x \notin Range(Stored("epochs", inst.fname)["params"]["events"]))]_vars

\* ------------------------------------- two update_log calls on a directory
\* update_log holds no lock and reads and writes the file in separate
\* steps: json.load in read_log, the save_log that ends read_log, and the
\* save_log that ends update_log.  Two calls, for two different filenames,
\* take these steps in any interleaving.  procs[p].early records whether
\* call p loaded the file before any call had written its record.
Procs == {1, 2}
ConcArtifacts ==
    [Procs ->
       {[kind |-> "raws", fname |-> f, bads |-> b] :
           f \in RawFiles, b \in SUBSET RawChannels} \cup FreshEpochs]

InitConc ==
    /\ \/ exists = FALSE /\ disk = EmptyDict
       \/ exists = TRUE /\ disk \in InitFiles
    /\ \E a \in ConcArtifacts :
          /\ a[1].fname = "a_raw.fif" /\ a[2].fname # "a_raw.fif"
          /\ procs = [p \in Procs |->
                        [pc |-> "start", inst |-> a[p], logs |-> EmptyDict, early |-> FALSE]]
    /\ order = <<>>
    /\ inst = [kind |-> "raws", fname |-> "a_raw.fif", bads |-> {}]
    /\ last = Call("none", "ok", "", FALSE, {})
    /\ rt = "loaded"
    /\ hist = [f \in AllFiles |-> {}]

\* read_log, up to the defaults: the structure is now in the call's memory
CLoad(p) ==
    LET f == FillDefaults(IF exists THEN disk ELSE EmptyDict)
    IN  /\ procs[p].pc = "start"
        /\ procs' = [procs EXCEPT ![p].pc = IF f.err = "ok" THEN "loaded" ELSE "failed",
                                  ![p].logs = f.logs,
                                  ![p].early = (order = <<>>)]
        /\ UNCHANGED <<exists, disk, order, inst, last, rt, hist>>

\* the save_log that ends read_log
CHeal(p) ==
    LET w == SaveLog(exists, disk, procs[p].logs)
    IN  /\ procs[p].pc = "loaded"
        /\ exists' = w.exists
        /\ disk' = w.disk
        /\ procs' = [procs EXCEPT ![p].pc = "read", ![p].logs = w.logs]
        /\ UNCHANGED <<order, inst, last, rt, hist>>

\* faulty variant of the last step: merges the record into the file as it
\* is at the time of writing
CWriteOntoFile(p) ==
    LET u == UpdateByKind(procs[p].inst, disk)
        w == SaveLog(exists, disk, u.logs)
    IN  /\ procs[p].pc = "read"
        /\ exists' = w.exists
        /\ disk' = w.disk
        /\ procs' = [procs EXCEPT ![p].pc = "done"]
        /\ order' = Append(order, p)
        /\ UNCHANGED <<inst, last, rt, hist>>

\* the record set in the loaded structure, and the save_log that ends
\* update_log
CWrite(p) ==
    LET u == UpdateByKind(procs[p].inst, procs[p].logs)
        w == SaveLog(exists, disk, u.logs)
    IN  /\ procs[p].pc = "read"
        /\ IF u.err # "ok"
             THEN /\ procs' = [procs EXCEPT ![p].pc = "failed"]
                  /\ UNCHANGED <<exists, disk, order>>
             ELSE /\ exists' = w.exists
                  /\ disk' = w.disk
                  /\ procs' = [procs EXCEPT ![p].pc = "done", ![p].logs = w.logs]
                  /\ order' = Append(order, p)
        /\ UNCHANGED <<inst, last, rt, hist>>

ConcLoad == \E p \in Procs : CLoad(p)
ConcHeal == \E p \in Procs : CHeal(p)
ConcWrite == \E p \in Procs : CWrite(p)

NextConc ==
    \/ ConcLoad
    \/ ConcHeal
    \/ ConcWrite

SpecConc == InitConc /\ [][NextConc]_vars

\* the file holds the record of a call: its artifact's data under its
\* filename
HoldsRecordOf(p) ==
    /\ HasRecord(procs[p].inst.kind, procs[p].inst.fname)
    /\ DataIn(Stored(procs[p].inst.kind, procs[p].inst.fname)) = DataOf(procs[p].inst)

\* C17: when two update_log calls for two different filenames have both
\* returned, the file holds the record of the call that wrote last; it
\* holds the record of the call that wrote first exactly when the last
\* writer loaded the file after that write.  So when both calls read before
\* either writes, the first writer's record is lost, and when one call runs
\* after the other the file holds both records.
C17_LostUpdate ==
    (\A p \in Procs : procs # <<>> /\ procs[p].pc = "done")
      => /\ HoldsRecordOf(order[2])
         /\ HasRecord(procs[order[1]].inst.kind, procs[order[1]].inst.fname)
              <=> ~procs[order[2]].early
         /\ ~procs[order[2]].early => HoldsRecordOf(order[1])

\* both calls loaded the file before either wrote, both have written, and
\* the record of the first writer is not in the file
C17_Witness ==
    /\ procs # <<>>
    /\ \A p \in Procs : procs[p].pc = "done" /\ procs[p].early
    /\ ~HasRecord(procs[order[1]].inst.kind, procs[order[1]].inst.fname)
    /\ HoldsRecordOf(order[2])

\* one call ran after the other and the file holds both records
C17_WitnessSequential ==
    /\ procs # <<>>
    /\ \A p \in Procs : procs[p].pc = "done"
    /\ ~procs[order[2]].early
    /\ \A p \in Procs : HoldsRecordOf(p)

\* the mapping of a kind in a file (empty when the file or the key is absent)
MappingIn(ex, dk, kind) == IF ex /\ Has(dk, kind) THEN dk[kind] ELSE EmptyDict

\* C18: a reject call, for every kind and whether it succeeds or fails,
\* leaves the mappings raws, epochs and icas of the file with the same
\* filenames and the same records as before; the params snapshot built for
\* a filename without record is not written, and is_cleaned for that
\* filename is still false after the call.
C18_RejectRecordsNothing ==
    [][last'.op = "reject"
         => /\ \A kind \in Kinds :
                  MappingIn(exists', disk', kind) = MappingIn(exists, disk, kind)
            /\ ~HasRecord(inst.kind, inst.fname)
                 => LET c == IsCleaned(exists', disk', inst.fname, inst.kind)
                    IN  ~c.ret /\ (exists' /\ ~BrokenConfig => c.err = "ok")]_vars

\* a reject of an epochs artifact has just succeeded, the file exists and
\* holds no record for the filename
C18_Witness ==
    /\ last.op = "reject" /\ last.err = "ok" /\ inst.kind = "epochs"
    /\ exists /\ Has(disk, "epochs") /\ ~HasRecord("epochs", inst.fname)
    /\ ~IsCleaned(exists, disk, inst.fname, "epochs").ret

\* C19: a reject that directly follows a successful update_log with the
\* same artifact succeeds, without parameter or events mismatch, and leaves
\* the artifact's bads, selection and exclude as they were; also when the
\* update was not the first for the filename.
C19_UpdateThenReject ==
    [][(last.op = "update_log" /\ last.err = "ok" /\ last'.op = "reject")
         => (last'.err = "ok" /\ DataOf(inst') = DataOf(inst))]_vars

====
